---- MODULE Spec2Model ----
(***************************************************************************)
(* A model of the bimp grid rewriting engine.                              *)
(*                                                                         *)
(*   main.rs      Grid<T, W, H> with check_patch_at, get_patch_matches,    *)
(*                replace_at, single_random_replace,                       *)
(*                priority_random_repace, transform_indices, rotate        *)
(*   coord.rs     the 1D and 2D Coord implementations and CoordIter        *)
(*   grid.rs      RotatedGridView                                          *)
(*   ndcoord.rs   Coord<D> and CartesianIter<D>                            *)
(*   rotation.rs  rotation_permutations                                    *)
(*                                                                         *)
(* A grid is the array items[y][x]: a function from the row index y to a   *)
(* function from the column index x to a cell.                             *)
(***************************************************************************)
EXTENDS Integers, Sequences, FiniteSets, TLC

\* ------------------------------------------------------------ bounds ----
\* Grid<T, W, H>: width and height of the grid.
W == 3
H == 2
\* Grid<Option<T>, S, S>: side of the square find and replace patches.
S == 2

\* The grids drawn as inputs hold at most MaxMarked non-default cells.
MaxMarked == 2
\* The rule lists drawn as inputs hold at most MaxRules rules.
MaxRules == 2

\* coord.rs: extents have axes in 1..MaxExtent; rotated is called with
\* times in 0..MaxTimes.
MaxExtent == 3
MaxTimes == 4
\* rotated is called on its own result up to MaxCalls times in a row.
MaxCalls == 4

\* ndcoord.rs: CartesianIter<D> for D in 1..MaxIterDim.
MaxIterDim == 3
\* next() is called until it has returned None MaxNones times.
MaxNones == 2

\* rotation.rs: rotation_permutations(dimension) for dimension in 1..MaxDim.
MaxDim == 3

\* Grid::new, NGrid::new: at most MaxCells cells are supplied.
MaxCells == 6

\* rotate is called on its own result up to MaxRotates times in a row.
MaxRotates == 2

\* The cell type T: two of the variants of Tile; Black is Tile::default().
Tiles == {"Black", "Red"}
TileDefault == "Black"
\* Option<T>::None, the wildcard of a patch.
None == "None"
PatchCell == Tiles \cup {None}

\* --------------------------------------------------- main.rs: grids ----
GridCells == (0..(H - 1)) \X (0..(W - 1))
PatchRows == 0..(S - 1)

\* Grid<T, S, S>::default() for T = Option<Tile>: every cell None.
PatchDefault == [y \in PatchRows |-> [x \in PatchRows |-> None]]

\* transform_indices: start from the default grid and, for the cells in
\* row order (y outer, x inner), store items[y][x] at [new_y][new_x].
RECURSIVE transform_from(_, _, _, _, _)
transform_from(ret, items, x_transform, y_transform, k) ==
    IF k = S * S THEN ret
    ELSE LET y == k \div S
             x == k % S
             new_x == x_transform[x, y, S]
             new_y == y_transform[x, y, S]
         IN transform_from([ret EXCEPT ![new_y][new_x] = items[y][x]],
                           items, x_transform, y_transform, k + 1)

transform_indices(items, x_transform, y_transform) ==
    transform_from(PatchDefault, items, x_transform, y_transform, 0)

\* rotate with the closures of the quarter turn and of the three-quarter
\* turn exchanged.
rotate_other_way(items, times) ==
    LET n == times % 4
    IN CASE n = 0 -> transform_indices(items, [x \in PatchRows, y \in PatchRows, size \in {S} |-> x],
                                              [x \in PatchRows, y \in PatchRows, size \in {S} |-> y])
         [] n = 1 -> transform_indices(items, [x \in PatchRows, y \in PatchRows, size \in {S} |-> y],
                                              [x \in PatchRows, y \in PatchRows, size \in {S} |-> size - 1 - x])
         [] n = 2 -> transform_indices(items, [x \in PatchRows, y \in PatchRows, size \in {S} |-> size - 1 - x],
                                              [x \in PatchRows, y \in PatchRows, size \in {S} |-> size - 1 - y])
         [] n = 3 -> transform_indices(items, [x \in PatchRows, y \in PatchRows, size \in {S} |-> size - 1 - y],
                                              [x \in PatchRows, y \in PatchRows, size \in {S} |-> x])

\* rotate(times): the four arms of the match; any other n is n % 4. The
\* closures passed to transform_indices are functions of (old_x, old_y, size).
rotate(items, times) ==
    LET n == times % 4
    IN CASE n = 0 -> transform_indices(items, [x \in PatchRows, y \in PatchRows, size \in {S} |-> x],
                                              [x \in PatchRows, y \in PatchRows, size \in {S} |-> y])
         [] n = 1 -> transform_indices(items, [x \in PatchRows, y \in PatchRows, size \in {S} |-> size - 1 - y],
                                              [x \in PatchRows, y \in PatchRows, size \in {S} |-> x])
         [] n = 2 -> transform_indices(items, [x \in PatchRows, y \in PatchRows, size \in {S} |-> size - 1 - x],
                                              [x \in PatchRows, y \in PatchRows, size \in {S} |-> size - 1 - y])
         [] n = 3 -> transform_indices(items, [x \in PatchRows, y \in PatchRows, size \in {S} |-> y],
                                              [x \in PatchRows, y \in PatchRows, size \in {S} |-> size - 1 - x])

\* check_patch_at with the bounds test made before the wildcard test.
RECURSIVE check_patch_from_bounds_first(_, _, _, _, _)
check_patch_from_bounds_first(items, patch, offset_x, offset_y, k) ==
    IF k = S * S THEN TRUE
    ELSE LET patch_y == k \div S
             patch_x == k % S
             item == patch[patch_y][patch_x]
             grid_x == patch_x + offset_x
             grid_y == patch_y + offset_y
         IN IF grid_x < 0 \/ grid_y < 0 \/ grid_x >= W \/ grid_y >= H
            THEN FALSE
            ELSE IF item # None /\ items[grid_y][grid_x] # item
                 THEN FALSE
                 ELSE check_patch_from_bounds_first(items, patch,
                                                    offset_x, offset_y, k + 1)

\* check_patch_at that skips a concrete cell outside the grid, as it skips
\* a wildcard.
RECURSIVE check_patch_from_skips_outside(_, _, _, _, _)
check_patch_from_skips_outside(items, patch, offset_x, offset_y, k) ==
    IF k = S * S THEN TRUE
    ELSE LET patch_y == k \div S
             patch_x == k % S
             item == patch[patch_y][patch_x]
             grid_x == patch_x + offset_x
             grid_y == patch_y + offset_y
         IN IF item = None \/ grid_x < 0 \/ grid_y < 0 \/ grid_x >= W \/ grid_y >= H
            THEN check_patch_from_skips_outside(items, patch, offset_x, offset_y, k + 1)
            ELSE IF items[grid_y][grid_x] # item
                 THEN FALSE
                 ELSE check_patch_from_skips_outside(items, patch,
                                                     offset_x, offset_y, k + 1)

\* check_patch_at: the two loops with their early returns; k counts the
\* patch cells in row order.
RECURSIVE check_patch_from(_, _, _, _, _)
check_patch_from(items, patch, offset_x, offset_y, k) ==
    IF k = S * S THEN TRUE
    ELSE LET patch_y == k \div S
             patch_x == k % S
             item == patch[patch_y][patch_x]
             grid_x == patch_x + offset_x
             grid_y == patch_y + offset_y
         IN IF item = None
            THEN check_patch_from(items, patch, offset_x, offset_y, k + 1)
            ELSE IF grid_x < 0 \/ grid_y < 0 \/ grid_x >= W \/ grid_y >= H
                 THEN FALSE
                 ELSE IF items[grid_y][grid_x] # item
                      THEN FALSE
                      ELSE check_patch_from(items, patch, offset_x, offset_y, k + 1)

check_patch_at(items, patch, offset_x, offset_y) ==
    check_patch_from(items, patch, offset_x, offset_y, 0)

\* A scan that starts at offset 0 on both axes.
scan_order_from_zero ==
    [i \in 1..(4 * W * H) |->
        [rotation_times |-> (i - 1) \div (W * H),
         position |-> << ((i - 1) % (W * H)) \div H, (i - 1) % H >>]]

\* A scan with the loop over offset_y outside the loop over offset_x.
scan_order_y_outer ==
    LET nx == W + S - 1
        ny == H + S - 1
    IN [i \in 1..(4 * nx * ny) |->
          [rotation_times |-> (i - 1) \div (nx * ny),
           position |-> << ((i - 1) % nx) - (S - 1),
                           (((i - 1) % (nx * ny)) \div nx) - (S - 1) >>]]

\* The (rotation_times, offset_x, offset_y) triples in the order the three
\* nested loops of get_patch_matches visit them: rotation outermost, then
\* offset_x in -(S-1)..W-1, then offset_y in -(S-1)..H-1 innermost.
scan_order ==
    LET nx == W + S - 1
        ny == H + S - 1
    IN [i \in 1..(4 * nx * ny) |->
          [rotation_times |-> (i - 1) \div (nx * ny),
           position |-> << (((i - 1) % (nx * ny)) \div ny) - (S - 1),
                           ((i - 1) % ny) - (S - 1) >>]]

\* get_patch_matches: push a PatchOrientation for every visited triple
\* whose rotated patch passes check_patch_at.
get_patch_matches(items, patch) ==
    LET rotated_patch == [r \in 0..3 |-> rotate(patch, r)]
        hit(o) == check_patch_at(items, rotated_patch[o.rotation_times],
                                 o.position[1], o.position[2])
    IN SelectSeq(scan_order, hit)

\* replace_at that writes the default over the cells under a wildcard.
RECURSIVE replace_from_all_cells(_, _, _, _)
replace_from_all_cells(items, turned, position, k) ==
    IF k = S * S THEN [items |-> items, panicked |-> FALSE]
    ELSE LET y == k \div S
             x == k % S
             item == turned[y][x]
             gy == y + position[2]
             gx == x + position[1]
         IN IF gy < 0 \/ gy >= H \/ gx < 0 \/ gx >= W
            THEN IF item = None
                 THEN replace_from_all_cells(items, turned, position, k + 1)
                 ELSE [items |-> items, panicked |-> TRUE]
            ELSE replace_from_all_cells(
                     [items EXCEPT ![gy][gx] =
                          IF item = None THEN TileDefault ELSE item],
                     turned, position, k + 1)

\* replace_at: write the non-None cells of the rotated patch in row order.
\* An index that is negative (it wraps as usize) or past the array's end
\* panics; the cells written before it stay written.
RECURSIVE replace_from(_, _, _, _)
replace_from(items, turned, position, k) ==
    IF k = S * S THEN [items |-> items, panicked |-> FALSE]
    ELSE LET y == k \div S
             x == k % S
             item == turned[y][x]
             gy == y + position[2]
             gx == x + position[1]
         IN IF item = None
            THEN replace_from(items, turned, position, k + 1)
            ELSE IF gy < 0 \/ gy >= H \/ gx < 0 \/ gx >= W
                 THEN [items |-> items, panicked |-> TRUE]
                 ELSE replace_from([items EXCEPT ![gy][gx] = item],
                                   turned, position, k + 1)

\* replace_at that writes the patch as given, not rotated.
replace_at_unrotated(items, replacement_patch, orientation) ==
    replace_from(items, replacement_patch, orientation.position, 0)

replace_at(items, replacement_patch, orientation) ==
    replace_from(items, rotate(replacement_patch, orientation.rotation_times),
                 orientation.position, 0)

\* --------------------------------------------- main.rs: rule engine ----
\* random::<usize>(): only its residue modulo matches.len() is used, and
\* no match list is longer than the scan, so these values give every
\* residue of every match list (and values past the list's length).
UsizeValues == 0..(Len(scan_order) - 1)

\* single_random_replace that replaces but reports false.
single_random_replace_silent(items, rule) ==
    LET matches == get_patch_matches(items, rule.find)
    IN IF Len(matches) = 0
       THEN {[items |-> items, panicked |-> FALSE, ret |-> "false"]}
       ELSE {LET chosen_match == matches[(random % Len(matches)) + 1]
                 r == replace_at(items, rule.replace, chosen_match)
             IN [items |-> r.items, panicked |-> r.panicked,
                 ret |-> IF r.panicked THEN "panic" ELSE "false"]
             : random \in UsizeValues}

\* single_random_replace: false when the find patch has no match, else
\* replace_at at matches[random % matches.len()] and true. A panic in
\* replace_at leaves the call without a return value. The result is the
\* set of outcomes over the values random::<usize>() may return.
single_random_replace(items, rule) ==
    LET matches == get_patch_matches(items, rule.find)
    IN IF Len(matches) = 0
       THEN {[items |-> items, panicked |-> FALSE, ret |-> "false"]}
       ELSE {LET chosen_match == matches[(random % Len(matches)) + 1]
                 r == replace_at(items, rule.replace, chosen_match)
             IN [items |-> r.items, panicked |-> r.panicked,
                 ret |-> IF r.panicked THEN "panic" ELSE "true"]
             : random \in UsizeValues}

\* priority_random_repace without the break: every rule gets its turn.
RECURSIVE priority_from_no_break(_, _, _, _)
priority_from_no_break(items, rule_list, i, calls) ==
    IF i > Len(rule_list)
    THEN {[items |-> items, panicked |-> FALSE, calls |-> calls, ret |-> "unit"]}
    ELSE UNION {IF r.ret # "panic"
                THEN priority_from_no_break(r.items, rule_list, i + 1,
                                            Append(calls, r.ret))
                ELSE {[items |-> r.items, panicked |-> r.panicked,
                       calls |-> Append(calls, r.ret), ret |-> "panic"]}
                : r \in single_random_replace(items, rule_list[i])}

\* priority_random_repace: call single_random_replace for the rules in
\* list order and break at the first call that returns true. The function
\* returns (). calls lists what each single_random_replace call returned.
RECURSIVE priority_from(_, _, _, _)
priority_from(items, rule_list, i, calls) ==
    IF i > Len(rule_list)
    THEN {[items |-> items, panicked |-> FALSE, calls |-> calls, ret |-> "unit"]}
    ELSE UNION {IF r.ret = "false"
                THEN priority_from(r.items, rule_list, i + 1, Append(calls, r.ret))
                ELSE {[items |-> r.items, panicked |-> r.panicked,
                       calls |-> Append(calls, r.ret),
                       ret |-> IF r.panicked THEN "panic" ELSE "unit"]}
                : r \in single_random_replace(items, rule_list[i])}

priority_random_repace(items, rule_list) ==
    priority_from(items, rule_list, 1, << >>)

\* ------------------------------------------------------------ state ----
VARIABLES
    grid,      \* Model.grid.items (main.rs:5), the receiver of the Grid methods
    rules,     \* Model.rules (main.rs:6)
    patch,     \* the patch argument of the Grid methods
    halted,    \* TRUE once a call has panicked: the process is gone
    call,      \* the last call: its name, its arguments, what it returned
    size,      \* grid.rs Grid.size: the extent of a Coord-indexed grid
    cells,     \* grid.rs Grid.items: the flat Vec, indexed from 0
    coord,     \* a coordinate of coord.rs: a usize << x >> or a pair << x, y >>
    iter,      \* a CoordIter (coord.rs) or a CartesianIter (ndcoord.rs)
    returned,  \* what the calls of iter.next() returned, in order
    rot,       \* rotation.rs: where rotation_permutations stands
    out        \* rotation.rs: the configurations collected so far

vars == << grid, rules, patch, halted, call, size, cells, coord,
           iter, returned, rot, out >>

engine_vars == << grid, rules, patch >>
coord_vars == << size, cells, coord >>
iter_vars == << iter, returned >>
rot_vars == << rot, out >>

NoCall == [op |-> "none"]

\* --------------------------------------------------------- inputs ------
marked(items) == {c \in GridCells : items[c[1]][c[2]] # TileDefault}

\* Grid::default() with at most MaxMarked cells set afterwards, as model()
\* sets grid.items[32][32].
Grids ==
    {g \in [0..(H - 1) -> [0..(W - 1) -> Tiles]] : Cardinality(marked(g)) <= MaxMarked}

\* A patch in the shape of the demo rules: the first two cells of the first
\* row given, every other cell None.
row_patch(a, b) ==
    [y \in PatchRows |-> [x \in PatchRows |->
        IF y = 0 /\ x = 0 THEN a ELSE IF y = 0 /\ x = 1 THEN b ELSE None]]

\* Rules as ReplacementRule { find, replace }. The first two have the shape
\* of the demo rules; the last two are rules the types also admit: a find
\* patch of wildcards only, and a replace patch that is concrete where the
\* find patch is a wildcard.
RuleSet ==
    { [find |-> row_patch("Red", "Black"), replace |-> row_patch("Black", "Red")],
      [find |-> row_patch("Red", "Red"),   replace |-> row_patch("Black", None)],
      [find |-> row_patch(None, None),     replace |-> row_patch("Red", None)],
      [find |-> row_patch("Black", None),  replace |-> row_patch(None, "Red")] }

RuleLists == UNION {[1..n -> RuleSet] : n \in 0..MaxRules}

\* ------------------------------------------------- the rule engine ----
\* model(): a grid and a rule list; nothing has been called yet.
Init ==
    /\ grid \in Grids
    /\ rules \in RuleLists
    /\ patch = PatchDefault
    /\ halted = FALSE
    /\ call = NoCall
    /\ size = << >> /\ cells = << >> /\ coord = << >>
    /\ iter = [kind |-> "none"] /\ returned = << >>
    /\ rot = [stage |-> "none"] /\ out = << >>

\* key_pressed_fn: model.grid.priority_random_repace(&model.rules).
KeyPressed ==
    /\ ~halted
    /\ \E r \in priority_random_repace(grid, rules) :
          /\ grid' = r.items
          /\ halted' = r.panicked
          /\ call' = [op |-> "priority_random_repace", before |-> grid,
                      calls |-> r.calls, ret |-> r.ret]
    /\ UNCHANGED << rules, patch, coord_vars, iter_vars, rot_vars >>

Next == KeyPressed

Spec == Init /\ [][Next]_vars

\* ------------------------------------------- the Grid methods alone ----
\* Every S x S patch over Option<T>.
Patches == [PatchRows -> [PatchRows -> PatchCell]]

\* The offsets get_patch_matches scans, and one more on every side.
ScannedX == (-(S - 1))..(W - 1)
ScannedY == (-(S - 1))..(H - 1)
NearbyX == (-S)..W
NearbyY == (-S)..H

\* What a PatchOrientation can hold when it comes from a scan.
Orientations == [rotation_times : 0..3, position : ScannedX \X ScannedY]

\* A grid and a patch; the methods are then called on them.
InitPatch ==
    /\ grid \in Grids
    /\ patch \in Patches
    /\ rules = << >>
    /\ halted = FALSE
    /\ call = NoCall
    /\ size = << >> /\ cells = << >> /\ coord = << >>
    /\ iter = [kind |-> "none"] /\ returned = << >>
    /\ rot = [stage |-> "none"] /\ out = << >>

\* grid.check_patch_at(&patch, offset_x, offset_y)
CheckPatchAt ==
    /\ call = NoCall
    /\ \E offset_x \in NearbyX, offset_y \in NearbyY :
          call' = [op |-> "check_patch_at",
                   offset_x |-> offset_x, offset_y |-> offset_y,
                   ret |-> check_patch_at(grid, patch, offset_x, offset_y)]
    /\ UNCHANGED << grid, rules, patch, halted, coord_vars, iter_vars, rot_vars >>

\* grid.replace_at(&patch, &orientation)
ReplaceAt ==
    /\ call = NoCall
    /\ \E orientation \in Orientations :
          LET r == replace_at(grid, patch, orientation)
          IN /\ grid' = r.items
             /\ halted' = r.panicked
             /\ call' = [op |-> "replace_at", before |-> grid,
                         orientation |-> orientation]
    /\ UNCHANGED << rules, patch, coord_vars, iter_vars, rot_vars >>

\* grid.get_patch_matches(&patch), on the grid as drawn or after a
\* replace_at that returned.
GetPatchMatches ==
    /\ ~halted
    /\ call.op \in {"none", "replace_at"}
    /\ call' = [op |-> "get_patch_matches", after |-> call,
                ret |-> get_patch_matches(grid, patch)]
    /\ UNCHANGED << grid, rules, patch, halted, coord_vars, iter_vars, rot_vars >>

NextPatch == CheckPatchAt \/ ReplaceAt \/ GetPatchMatches

SpecPatch == InitPatch /\ [][NextPatch]_vars

\* ------------------------------------------------- Grid::rotate alone ----
\* A square S x S grid, here over Option<T>.
InitRotate ==
    /\ patch \in Patches
    /\ grid = << >> /\ rules = << >>
    /\ halted = FALSE
    /\ call = NoCall
    /\ size = << >> /\ cells = << >> /\ coord = << >>
    /\ iter = [kind |-> "none"] /\ returned = << >>
    /\ rot = [stage |-> "none"] /\ out = << >>

\* patch = patch.rotate(times), first on the grid as drawn and then on
\* what the call before returned. The record keeps the first grid, the
\* receiver of this call, the number of calls and the sum of their times.
Rotate ==
    /\ call.op \in {"none", "rotate"}
    /\ LET calls == IF call = NoCall THEN 0 ELSE call.calls
           turns == IF call = NoCall THEN 0 ELSE call.turns
           first == IF call = NoCall THEN patch ELSE call.first
       IN /\ calls < MaxRotates
          /\ \E times \in 0..MaxTimes :
                /\ patch' = rotate(patch, times)
                /\ call' = [op |-> "rotate", first |-> first, self |-> patch,
                            times |-> times, calls |-> calls + 1,
                            turns |-> turns + times]
    /\ UNCHANGED << grid, rules, halted, coord_vars, iter_vars, rot_vars >>

NextRotate == Rotate

SpecRotate == InitRotate /\ [][NextRotate]_vars

\* ------------------------------------------------ coord.rs: Coord ----
\* impl Coord for usize: the coordinate x is the tuple << x >>.
NUM_ROTATIONS_1D == 2

extent_1d(self) == self[1]

to_flat_1d(self, grid_size) == self[1]

\* canonical_rotation_times, for the implementation with n rotations.
canonical_rotation_times(times, n) == times % n

\* rotated of usize. The arms are those of the match; the subtraction is
\* on usize and is only made for a coordinate inside grid_size.
rotated_1d(self, times, grid_size) ==
    LET t == canonical_rotation_times(times, NUM_ROTATIONS_1D)
    IN CASE t = 0 -> self
         [] t = 1 -> << grid_size[1] - 1 - self[1] >>

\* impl Coord for (usize, usize): self.0 is self[1], self.1 is self[2].
NUM_ROTATIONS_2D == 4

extent_2d(self) == self[1] * self[2]

to_flat_2d(self, grid_size) == grid_size[2] * self[1] + self[2]

\* rotated with a transposition for the last arm.
rotated_2d_transposed(self, times, grid_size) ==
    LET t == canonical_rotation_times(times, NUM_ROTATIONS_2D)
    IN CASE t = 0 -> self
         [] t = 1 -> << grid_size[2] - 1 - self[2], self[1] >>
         [] t = 2 -> << grid_size[1] - 1 - self[1], grid_size[2] - 1 - self[2] >>
         [] t = 3 -> << self[2], self[1] >>

\* rotated without the "- 1" on the first axis of the half turn.
rotated_2d_off_by_one(self, times, grid_size) ==
    LET t == canonical_rotation_times(times, NUM_ROTATIONS_2D)
    IN CASE t = 0 -> self
         [] t = 1 -> << grid_size[2] - 1 - self[2], self[1] >>
         [] t = 2 -> << grid_size[1] - self[1], grid_size[2] - 1 - self[2] >>
         [] t = 3 -> << self[2], grid_size[1] - 1 - self[1] >>

rotated_2d(self, times, grid_size) ==
    LET t == canonical_rotation_times(times, NUM_ROTATIONS_2D)
    IN CASE t = 0 -> self
         [] t = 1 -> << grid_size[2] - 1 - self[2], self[1] >>
         [] t = 2 -> << grid_size[1] - 1 - self[1], grid_size[2] - 1 - self[2] >>
         [] t = 3 -> << self[2], grid_size[1] - 1 - self[1] >>

\* The trait's methods, dispatched on the coordinate type.
is_pair(c) == Len(c) = 2

NUM_ROTATIONS(c) == IF is_pair(c) THEN NUM_ROTATIONS_2D ELSE NUM_ROTATIONS_1D

extent(c) == IF is_pair(c) THEN extent_2d(c) ELSE extent_1d(c)

to_flat(c, grid_size) ==
    IF is_pair(c) THEN to_flat_2d(c, grid_size) ELSE to_flat_1d(c, grid_size)

rotated(c, times, grid_size) ==
    IF is_pair(c) THEN rotated_2d(c, times, grid_size)
    ELSE rotated_1d(c, times, grid_size)

\* 0 <= axis < grid_size.axis on every axis.
inside(c, grid_size) ==
    IF is_pair(c)
    THEN /\ 0 <= c[1] /\ c[1] < grid_size[1]
         /\ 0 <= c[2] /\ c[2] < grid_size[2]
    ELSE 0 <= c[1] /\ c[1] < grid_size[1]

\* grid.rs, Index for Grid: items[index.to_flat(size)]; a Vec index past
\* the end panics.
grid_index(items, grid_size, index) ==
    LET flat == to_flat(index, grid_size)
    IN IF flat \in DOMAIN items
       THEN [flat |-> flat, panicked |-> FALSE, ret |-> items[flat]]
       ELSE [flat |-> flat, panicked |-> TRUE, ret |-> -1]

\* grid.rs, Index for RotatedGridView:
\* grid_view[index.rotated(rotation_times, grid_view.size)]
rotated_view_index(items, grid_size, rotation_times, index) ==
    grid_index(items, grid_size, rotated(index, rotation_times, grid_size))

\* The extents and, for an extent, the coordinates inside it.
Extents == {<< w >> : w \in 1..MaxExtent} \cup ((1..MaxExtent) \X (1..MaxExtent))

coords_inside(grid_size) ==
    IF is_pair(grid_size)
    THEN (0..(grid_size[1] - 1)) \X (0..(grid_size[2] - 1))
    ELSE {<< x >> : x \in 0..(grid_size[1] - 1)}

\* Grid::new(items, size) with items.len() == size.extent(): every cell
\* holds its own flat index. A coordinate inside the grid.
InitCoord ==
    /\ size \in Extents
    /\ cells = [i \in 0..(extent(size) - 1) |-> i]
    /\ coord \in coords_inside(size)
    /\ halted = FALSE
    /\ call = NoCall
    /\ grid = << >> /\ rules = << >> /\ patch = << >>
    /\ iter = [kind |-> "none"] /\ returned = << >>
    /\ rot = [stage |-> "none"] /\ out = << >>

\* c.rotated(times, size), first on coord and then on what the call
\* before returned, as long as that is a coordinate inside the grid. The
\* record keeps the number of calls and the sum of their times.
Rotated ==
    /\ call.op \in {"none", "rotated"}
    /\ LET c == IF call = NoCall THEN coord ELSE call.ret
           calls == IF call = NoCall THEN 0 ELSE call.calls
           turns == IF call = NoCall THEN 0 ELSE call.turns
       IN /\ calls < MaxCalls
          /\ inside(c, size)
          /\ \E times \in 0..MaxTimes :
                call' = [op |-> "rotated", self |-> c, times |-> times,
                         ret |-> rotated(c, times, size),
                         calls |-> calls + 1, turns |-> turns + times]
    /\ UNCHANGED << halted, engine_vars, coord_vars, iter_vars, rot_vars >>

\* grid.with_rotation(times)[coord]
RotatedViewIndex ==
    /\ call = NoCall
    /\ \E times \in 0..MaxTimes :
          LET r == rotated_view_index(cells, size, times, coord)
          IN /\ call' = [op |-> "index", times |-> times,
                         flat |-> r.flat, ret |-> r.ret]
             /\ halted' = r.panicked
    /\ UNCHANGED << engine_vars, coord_vars, iter_vars, rot_vars >>

NextCoord == Rotated \/ RotatedViewIndex

SpecCoord == InitCoord /\ [][NextCoord]_vars

\* ------------------------------------- coord.rs, ndcoord.rs: iterators ----
\* Option<Item>: Some(c) is << c >>, None is << >>.
Some(c) == << c >>

\* Coord::cartesian_iter: CoordIter { index: ZERO, target: self }
cartesian_iter(self) ==
    [kind |-> IF is_pair(self) THEN "CoordIter2" ELSE "CoordIter1",
     index |-> IF is_pair(self) THEN << 0, 0 >> ELSE << 0 >>,
     target |-> self]

\* Iterator for CoordIter<usize>
next_1d(it) ==
    LET cur == it.index
    IN [iter |-> [it EXCEPT !.index = << cur[1] + 1 >>],
        panicked |-> FALSE,
        ret |-> IF cur[1] < it.target[1] THEN Some(cur) ELSE << >>]

\* Iterator for CoordIter<(usize, usize)>
next_2d(it) ==
    LET cur == it.index
        col == cur[1] + 1
        index == IF col >= it.target[1] THEN << 0, cur[2] + 1 >> ELSE << col, cur[2] >>
    IN [iter |-> [it EXCEPT !.index = index],
        panicked |-> FALSE,
        ret |-> IF cur[1] < it.target[1] /\ cur[2] < it.target[2]
                THEN Some(cur) ELSE << >>]

\* ndcoord.rs Coord<D>: axes[d] for digit d - 1. Sub, Add, ONE.
coord_sub(a, b) == [d \in DOMAIN a |-> a[d] - b[d]]

coord_add(a, b) == [d \in DOMAIN a |-> a[d] + b[d]]

coord_one(D) == [d \in 1..D |-> 1]

coord_zero(D) == [d \in 1..D |-> 0]

\* CartesianIter::new(begin, end_inclusive)
cartesian_new(begin, end_inclusive) ==
    [kind |-> "CartesianIter", begin |-> begin, end_inclusive |-> end_inclusive,
     i |-> begin, overflow |-> FALSE]

\* Coord::iter_volume
iter_volume(self, volume_size) ==
    cartesian_new(self, coord_add(self, coord_sub(volume_size, coord_one(Len(self)))))

\* Iterator for CartesianIter<D>, the loop over the digits from digit on
\* and what follows it.
RECURSIVE next_nd_from(_, _, _)
next_nd_from(it, cur, digit) ==
    IF digit > Len(cur)
    THEN IF cur = it.end_inclusive
         THEN [iter |-> [it EXCEPT !.overflow = TRUE], panicked |-> FALSE,
               ret |-> Some(cur)]
         ELSE [iter |-> it, panicked |-> TRUE, ret |-> << >>]
    ELSE IF it.i[digit] < it.end_inclusive[digit]
         THEN [iter |-> [it EXCEPT !.i[digit] = @ + 1], panicked |-> FALSE,
               ret |-> Some(cur)]
         ELSE next_nd_from([it EXCEPT !.i[digit] = it.begin[digit]], cur, digit + 1)

\* Iterator for CartesianIter<D>
next_nd(it) ==
    LET cur == it.i
    IN IF it.overflow
       THEN [iter |-> it, panicked |-> FALSE, ret |-> << >>]
       ELSE next_nd_from(it, cur, 1)

\* The extents with axes in 0..MaxExtent, and the begin coordinates of the
\* tests: the origin and (-1, -2, ...).
IterExtents1 == {<< w >> : w \in 0..MaxExtent}
IterExtents2 == (0..MaxExtent) \X (0..MaxExtent)
IterExtentsN == UNION {[1..D -> 0..MaxExtent] : D \in 1..MaxIterDim}
Begins(D) == {coord_zero(D), [d \in 1..D |-> 0 - d]}

\* A fresh iterator: extent.cartesian_iter() or begin.iter_volume(&extent).
InitIter ==
    /\ \/ \E e \in IterExtents1 \cup IterExtents2 :
             /\ size = e
             /\ iter = cartesian_iter(e)
       \/ \E e \in IterExtentsN : \E b \in Begins(Len(e)) :
             /\ size = e
             /\ iter = iter_volume(b, e)
    /\ returned = << >>
    /\ halted = FALSE
    /\ call = NoCall
    /\ grid = << >> /\ rules = << >> /\ patch = << >>
    /\ cells = << >> /\ coord = << >>
    /\ rot = [stage |-> "none"] /\ out = << >>

nones(rets) == Cardinality({n \in 1..Len(rets) : rets[n] = << >>})

\* iter.next() of a CoordIter<usize>
Next1D ==
    /\ ~halted
    /\ iter.kind = "CoordIter1"
    /\ nones(returned) < MaxNones
    /\ LET r == next_1d(iter)
       IN /\ iter' = r.iter
          /\ halted' = r.panicked
          /\ returned' = IF r.panicked THEN returned ELSE Append(returned, r.ret)
    /\ UNCHANGED << call, engine_vars, coord_vars, rot_vars >>

\* iter.next() of a CoordIter<(usize, usize)>
Next2D ==
    /\ ~halted
    /\ iter.kind = "CoordIter2"
    /\ nones(returned) < MaxNones
    /\ LET r == next_2d(iter)
       IN /\ iter' = r.iter
          /\ halted' = r.panicked
          /\ returned' = IF r.panicked THEN returned ELSE Append(returned, r.ret)
    /\ UNCHANGED << call, engine_vars, coord_vars, rot_vars >>

\* iter.next() of a CartesianIter<D>; unreachable!() panics
NextND ==
    /\ ~halted
    /\ iter.kind = "CartesianIter"
    /\ nones(returned) < MaxNones
    /\ LET r == next_nd(iter)
       IN /\ iter' = r.iter
          /\ halted' = r.panicked
          /\ returned' = IF r.panicked THEN returned ELSE Append(returned, r.ret)
    /\ UNCHANGED << call, engine_vars, coord_vars, rot_vars >>

NextIter == Next1D \/ Next2D \/ NextND

SpecIter == InitIter /\ [][NextIter]_vars

\* ------------------------------------------------------ rotation.rs ----
\* usize::pow / u32::pow
pow(b, n) == LET p[k \in 0..n] == IF k = 0 THEN 1 ELSE b * p[k - 1] IN p[n]

\* The arrangement of index i: its digits in base dimension, lowest digit
\* first. arr[k] is the digit of digit_index k - 1.
arrangement_of(i, dimension) ==
    [k \in 1..dimension |-> (i \div pow(dimension, k - 1)) % dimension]

\* is_permutation: all(|x| unique.insert(x)) stops at the first axis that
\* is in the set already.
RECURSIVE is_permutation_from(_, _, _)
is_permutation_from(arr, unique, k) ==
    IF k > Len(arr) THEN TRUE
    ELSE IF arr[k] \in unique THEN FALSE
         ELSE is_permutation_from(arr, unique \cup {arr[k]}, k + 1)

is_permutation(arr) == is_permutation_from(arr, {}, 1)

\* parity, the inner while loop: walk the cycle from idx (an index from 0)
\* until a visited node, marking nodes and counting them.
RECURSIVE parity_cycle(_, _, _, _)
parity_cycle(arr, visited, idx, cycle_count) ==
    IF visited[idx + 1] THEN [visited |-> visited, cycle_count |-> cycle_count]
    ELSE parity_cycle(arr, [visited EXCEPT ![idx + 1] = TRUE],
                      arr[idx + 1], cycle_count + 1)

\* parity that takes the cycle length, not the cycle length less one.
RECURSIVE parity_from_cycle_length(_, _, _)
parity_from_cycle_length(arr, visited, par) ==
    IF \A k \in 1..Len(arr) : visited[k] THEN par
    ELSE LET first == (CHOOSE k \in 1..Len(arr) :
                          /\ ~visited[k]
                          /\ \A j \in 1..(k - 1) : visited[j]) - 1
             c == parity_cycle(arr, visited, first, 0)
         IN parity_from_cycle_length(arr, c.visited, par # (c.cycle_count % 2 = 1))

\* parity, the outer loop: from the first node not visited, until none.
RECURSIVE parity_from(_, _, _)
parity_from(arr, visited, par) ==
    IF \A k \in 1..Len(arr) : visited[k] THEN par
    ELSE LET first == (CHOOSE k \in 1..Len(arr) :
                          /\ ~visited[k]
                          /\ \A j \in 1..(k - 1) : visited[j]) - 1
             c == parity_cycle(arr, visited, first, 0)
         IN parity_from(arr, c.visited, par # ((c.cycle_count - 1) % 2 = 1))

parity(arr) == parity_from(arr, [k \in 1..Len(arr) |-> FALSE], FALSE)

\* bit: n & (1 << index) != 0
bit(n, index) == (n \div pow(2, index)) % 2 = 1

\* u32::count_ones, for the values below 2^len
count_ones(n, len) == Cardinality({index \in 0..len : bit(n, index)})

\* enumerate_negations, one turn of its for loop: the configuration pushed
\* for negation_configuration_int.
negation_configuration(permutation, negation_configuration_int) ==
    LET len == Len(permutation.items)
        negation_parity == count_ones(negation_configuration_int, len) % 2 = 1
    IN [k \in 1..len |->
          [input_axis |-> permutation.items[k],
           negated |-> IF k = len
                       THEN permutation.parity # negation_parity
                       ELSE bit(negation_configuration_int, k - 1)]]

\* enumerate_negations
enumerate_negations(permutation) ==
    [n \in 1..pow(2, Len(permutation.items) - 1) |->
        negation_configuration(permutation, n - 1)]

\* rotation_permutations, the chain from arrangement i on: what
\* enumerate_negations gives for every arrangement that is a permutation,
\* in the order of the arrangements.
RECURSIVE rotation_permutations_from(_, _)
rotation_permutations_from(dimension, i) ==
    IF i >= pow(dimension, dimension) THEN << >>
    ELSE LET arrangement == arrangement_of(i, dimension)
         IN (IF is_permutation(arrangement)
             THEN enumerate_negations([items |-> arrangement,
                                       parity |-> parity(arrangement)])
             ELSE << >>)
            \o rotation_permutations_from(dimension, i + 1)

\* rotation_permutations
rotation_permutations(dimension) == rotation_permutations_from(dimension, 0)

\* rotation_permutations(dimension) is called: the iterator chain stands
\* before arrangement 0 and nothing is collected.
InitRot ==
    /\ \E dimension \in 1..MaxDim :
          rot = [stage |-> "arrange", dimension |-> dimension, i |-> 0]
    /\ out = << >>
    /\ halted = FALSE
    /\ call = NoCall
    /\ grid = << >> /\ rules = << >> /\ patch = << >>
    /\ size = << >> /\ cells = << >> /\ coord = << >>
    /\ iter = [kind |-> "none"] /\ returned = << >>

\* (0..num_arrangements).map(..): the next arrangement, or the end of the
\* chain, when collect() returns.
Arrange ==
    /\ rot.stage = "arrange"
    /\ rot' = IF rot.i < pow(rot.dimension, rot.dimension)
              THEN [stage |-> "filter", dimension |-> rot.dimension, i |-> rot.i,
                    arrangement |-> arrangement_of(rot.i, rot.dimension)]
              ELSE [stage |-> "done", dimension |-> rot.dimension, i |-> rot.i]
    /\ UNCHANGED << out, halted, call, engine_vars, coord_vars, iter_vars >>

\* .filter(|arrangement| is_permutation(arrangement))
Filter ==
    /\ rot.stage = "filter"
    /\ rot' = IF is_permutation(rot.arrangement)
              THEN [rot EXCEPT !.stage = "parity"]
              ELSE [stage |-> "arrange", dimension |-> rot.dimension, i |-> rot.i + 1]
    /\ UNCHANGED << out, halted, call, engine_vars, coord_vars, iter_vars >>

\* .map(|arrangement| AxisPermutation { items: arrangement, parity })
Parity ==
    /\ rot.stage = "parity"
    /\ rot' = [stage |-> "negations", dimension |-> rot.dimension, i |-> rot.i,
               permutation |-> [items |-> rot.arrangement,
                                parity |-> parity(rot.arrangement)],
               negation_configuration_int |-> 0]
    /\ UNCHANGED << out, halted, call, engine_vars, coord_vars, iter_vars >>

\* .flat_map(enumerate_negations).collect(): one turn of the for loop of
\* enumerate_negations pushes one configuration; after the last turn the
\* chain goes on to the next arrangement.
Negations ==
    /\ rot.stage = "negations"
    /\ LET n == rot.negation_configuration_int
           all == enumerate_negations(rot.permutation)
       IN /\ out' = Append(out, all[n + 1])
          /\ rot' = IF n + 1 < Len(all)
                    THEN [rot EXCEPT !.negation_configuration_int = n + 1]
                    ELSE [stage |-> "arrange", dimension |-> rot.dimension,
                          i |-> rot.i + 1]
    /\ UNCHANGED << halted, call, engine_vars, coord_vars, iter_vars >>

NextRot == Arrange \/ Filter \/ Parity \/ Negations

SpecRot == InitRot /\ [][NextRot]_vars

\* ------------------------------ grid.rs, ndgrid.rs, ngrid.rs: new ----
\* ndcoord.rs Coord::volume: self.axes.iter().sum::<isize>() as usize. The
\* axes of the extents below are not negative, so the cast keeps the sum.
sum_axes(axes) ==
    LET t[d \in 0..Len(axes)] == IF d = 0 THEN 0 ELSE t[d - 1] + axes[d]
    IN t[Len(axes)]

volume(self) == sum_axes(self)

\* ngrid.rs Volume::volume for [isize; DIM]: self.iter().sum::<isize>() as usize
volume_ngrid(self) == sum_axes(self)

\* Vec<TItem> of n cells, every cell holding its own flat index.
items_of(n) == [i \in 0..(n - 1) |-> i]

\* Grid::new: assert!(items.len() == size.extent())
grid_new(len, grid_size) ==
    IF len = extent(grid_size)
    THEN [panicked |-> FALSE, items |-> items_of(len), size |-> grid_size]
    ELSE [panicked |-> TRUE, items |-> << >>, size |-> << >>]

\* ndgrid.rs NGrid::new: assert!(items.len() == size.volume())
ndgrid_new(len, grid_size) ==
    IF len = volume(grid_size)
    THEN [panicked |-> FALSE, items |-> items_of(len), size |-> grid_size]
    ELSE [panicked |-> TRUE, items |-> << >>, size |-> << >>]

\* ngrid.rs NGrid::new: assert!(items.len() == size.volume())
ngrid_new(len, grid_size) ==
    IF len = volume_ngrid(grid_size)
    THEN [panicked |-> FALSE, items |-> items_of(len), size |-> grid_size]
    ELSE [panicked |-> TRUE, items |-> << >>, size |-> << >>]

\* Nothing is constructed yet.
InitNew ==
    /\ size = << >> /\ cells = << >> /\ coord = << >>
    /\ halted = FALSE
    /\ call = NoCall
    /\ grid = << >> /\ rules = << >> /\ patch = << >>
    /\ iter = [kind |-> "none"] /\ returned = << >>
    /\ rot = [stage |-> "none"] /\ out = << >>

\* Grid::new(items, size) for a 1D or 2D size
GridNew ==
    /\ ~halted
    /\ \E len \in 0..MaxCells : \E e \in IterExtents1 \cup IterExtents2 :
          LET r == grid_new(len, e)
          IN /\ call' = [op |-> "Grid::new", len |-> len, size |-> e]
             /\ halted' = r.panicked
             /\ cells' = r.items
             /\ size' = r.size
    /\ UNCHANGED << coord, engine_vars, iter_vars, rot_vars >>

\* ndgrid.rs NGrid::new(items, size)
NdGridNew ==
    /\ ~halted
    /\ \E len \in 0..MaxCells : \E e \in IterExtentsN :
          LET r == ndgrid_new(len, e)
          IN /\ call' = [op |-> "ndgrid::NGrid::new", len |-> len, size |-> e]
             /\ halted' = r.panicked
             /\ cells' = r.items
             /\ size' = r.size
    /\ UNCHANGED << coord, engine_vars, iter_vars, rot_vars >>

\* ngrid.rs NGrid::new(items, size)
NGridNew ==
    /\ ~halted
    /\ \E len \in 0..MaxCells : \E e \in IterExtentsN :
          LET r == ngrid_new(len, e)
          IN /\ call' = [op |-> "ngrid::NGrid::new", len |-> len, size |-> e]
             /\ halted' = r.panicked
             /\ cells' = r.items
             /\ size' = r.size
    /\ UNCHANGED << coord, engine_vars, iter_vars, rot_vars >>

NextNew == GridNew \/ NdGridNew \/ NGridNew

SpecNew == InitNew /\ [][NextNew]_vars

\* ------------------------------------------------------ claims: C1 ----
has_match(items, rule) == Len(get_patch_matches(items, rule.find)) > 0

matching_rules(items, rule_list) ==
    {i \in 1..Len(rule_list) : has_match(items, rule_list[i])}

first_matching(items, rule_list) ==
    CHOOSE i \in matching_rules(items, rule_list) :
        \A j \in matching_rules(items, rule_list) : i <= j

\* What one step may leave behind: the grid as it was when no rule has a
\* match, else the replace patch of the first rule with a match applied at
\* one of that rule's matches.
step_outcomes(items, rule_list) ==
    IF matching_rules(items, rule_list) = {}
    THEN {<< items, FALSE >>}
    ELSE LET rule == rule_list[first_matching(items, rule_list)]
             matches == get_patch_matches(items, rule.find)
         IN {LET r == replace_at(items, rule.replace, matches[k])
             IN << r.items, r.panicked >> : k \in 1..Len(matches)}

C1_StepTaken ==
    call.op = "priority_random_repace"
        => << grid, halted >> \in step_outcomes(call.before, rules)

C1_EveryMatchPossible ==
    ~halted =>
        {<< r.items, r.panicked >> : r \in priority_random_repace(grid, rules)}
            = step_outcomes(grid, rules)

\* C1: a step leaves exactly what applying the first rule with a match, at
\* any one of that rule's own matches, leaves (the grid as it was when no
\* rule has a match): no later rule's replacement, no second replacement;
\* and the rule list is unchanged.
C1_FirstRuleWins ==
    /\ [](C1_StepTaken /\ C1_EveryMatchPossible)
    /\ [][rules' = rules]_vars

\* A step in which the first rule had no match and the second rule, with
\* more than one match to pick from, was applied.
C1_Witness ==
    /\ call.op = "priority_random_repace"
    /\ call.calls = << "false", "true" >>
    /\ Len(get_patch_matches(call.before, rules[2].find)) > 1
    /\ grid # call.before

in_grid(x, y) == x >= 0 /\ x < W /\ y >= 0 /\ y < H

\* Every concrete cell of p, placed at the offset, lies in the grid and
\* equals the grid's cell there.
fits(items, p, offset_x, offset_y) ==
    \A py \in PatchRows, px \in PatchRows :
        p[py][px] # None =>
            /\ in_grid(px + offset_x, py + offset_y)
            /\ items[py + offset_y][px + offset_x] = p[py][px]

\* C3: check_patch_at is true iff every concrete patch cell lands inside
\* the grid on an equal cell; a wildcard never fails, in the grid or out of
\* it, so a patch of wildcards only passes at every offset.
C3_CheckPatchAt ==
    call.op = "check_patch_at" =>
        /\ call.ret = fits(grid, patch, call.offset_x, call.offset_y)
        /\ (\A py \in PatchRows, px \in PatchRows : patch[py][px] = None)
               => call.ret = TRUE

\* A passing check of a patch with a concrete cell and a wildcard that lies
\* outside the grid.
C3_Witness ==
    /\ call.op = "check_patch_at"
    /\ call.ret = TRUE
    /\ \E py \in PatchRows, px \in PatchRows : patch[py][px] # None
    /\ \E py \in PatchRows, px \in PatchRows :
          /\ patch[py][px] = None
          /\ ~in_grid(px + call.offset_x, py + call.offset_y)

\* ------------------------------------------------------ claims: C4 ----
passes(items, p, o) ==
    check_patch_at(items, rotate(p, o.rotation_times), o.position[1], o.position[2])

\* C4: get_patch_matches returns the scanned (rotation, offset) pairs that
\* pass check_patch_at, each once and nothing else; and a patch with a
\* concrete cell passes at no offset outside the scanned range.
C4_GetPatchMatches ==
    call.op = "get_patch_matches" =>
        /\ \A i \in 1..Len(call.ret) :
              /\ call.ret[i] \in Orientations
              /\ passes(grid, patch, call.ret[i])
        /\ \A o \in Orientations :
              passes(grid, patch, o) =>
                  Cardinality({i \in 1..Len(call.ret) : call.ret[i] = o}) = 1
        /\ (\E py \in PatchRows, px \in PatchRows : patch[py][px] # None) =>
              \A r \in 0..3, x \in NearbyX, y \in NearbyY :
                  passes(grid, patch, [rotation_times |-> r, position |-> << x, y >>])
                      => x \in ScannedX /\ y \in ScannedY

\* A scan that reports several matches, one of them at a negative offset,
\* while other scanned placements fail.
C4_Witness ==
    /\ call.op = "get_patch_matches"
    /\ Len(call.ret) > 1
    /\ Len(call.ret) < Cardinality(Orientations)
    /\ \E i \in 1..Len(call.ret) : call.ret[i].position[1] < 0

\* ------------------------------------------------------ claims: C5 ----
\* The cell of the rotated patch that lies over grid cell (gx, gy), None
\* when the patch does not cover it.
patch_cell_over(turned, position, gx, gy) ==
    LET px == gx - position[1]
        py == gy - position[2]
    IN IF px \in PatchRows /\ py \in PatchRows THEN turned[py][px] ELSE None

C5_Written ==
    call.op = "replace_at" =>
        LET turned == rotate(patch, call.orientation.rotation_times)
            position == call.orientation.position
        IN /\ \A c \in GridCells :
                 LET over == patch_cell_over(turned, position, c[2], c[1])
                 IN IF over = None
                    THEN grid[c[1]][c[2]] = call.before[c[1]][c[2]]
                    ELSE IF halted
                         THEN grid[c[1]][c[2]] \in {over, call.before[c[1]][c[2]]}
                         ELSE grid[c[1]][c[2]] = over
           /\ halted <=>
                 \E py \in PatchRows, px \in PatchRows :
                     /\ turned[py][px] # None
                     /\ ~in_grid(px + position[1], py + position[2])

\* C5: replace_at sets the grid cells under the concrete cells of the
\* rotated patch to those cells' values and leaves every other grid cell,
\* those under wildcards included, as it was; the patch is not modified.
\* (When a concrete cell lies outside the grid the call panics, and the
\* cells under concrete cells are the only ones it may have written.)
C5_ReplaceAt ==
    /\ []C5_Written
    /\ [][patch' = patch]_vars

\* A replace_at that returned, changed the grid, and left alone a cell of
\* the grid that lies under a wildcard and differs from the default.
C5_Witness ==
    /\ call.op = "replace_at"
    /\ ~halted
    /\ grid # call.before
    /\ call.orientation.rotation_times = 1
    /\ \E c \in GridCells :
          LET px == c[2] - call.orientation.position[1]
              py == c[1] - call.orientation.position[2]
          IN /\ px \in PatchRows /\ py \in PatchRows
             /\ rotate(patch, 1)[py][px] = None
             /\ grid[c[1]][c[2]] # TileDefault

\* ------------------------------------------------------ claims: C6 ----
no_wildcards(p) == \A py \in PatchRows, px \in PatchRows : p[py][px] # None

\* C6: after replace_at has written a patch without wildcards at
\* (rotation r, position p), get_patch_matches of the same patch reports a
\* match with rotation r and position p.
C6_RoundTrip ==
    (/\ call.op = "get_patch_matches"
     /\ call.after.op = "replace_at"
     /\ no_wildcards(patch))
        => \E i \in 1..Len(call.ret) : call.ret[i] = call.after.orientation

\* A scan after a patch without wildcards, not the same under a quarter
\* turn, was written with rotation 3 over cells that differed.
C6_Witness ==
    /\ call.op = "get_patch_matches"
    /\ call.after.op = "replace_at"
    /\ no_wildcards(patch)
    /\ call.after.orientation.rotation_times = 3
    /\ rotate(patch, 3) # patch
    /\ grid # call.after.before

\* ------------------------------------------------------ claims: C7 ----
\* A 1D extent, or a 2D extent with equal axes.
square(grid_size) == is_pair(grid_size) => grid_size[1] = grid_size[2]

\* C7: on a 1D extent and on a square 2D extent, rotating by 0 returns the
\* coordinate, rotating by a and then by b is rotating by a + b, and
\* rotating by a is rotating by a mod NUM_ROTATIONS; so a total that is a
\* multiple of NUM_ROTATIONS returns the first coordinate.
C7_GroupAction ==
    (call.op = "rotated" /\ square(size)) =>
        /\ call.times = 0 => call.ret = call.self
        /\ call.ret = rotated(call.self, call.times % NUM_ROTATIONS(call.self), size)
        /\ call.ret = rotated(coord, call.turns, size)
        /\ call.turns % NUM_ROTATIONS(coord) = 0 => call.ret = coord

\* NUM_ROTATIONS calls of rotated by 1 on a square extent, from a
\* coordinate that a quarter turn moves, back at that coordinate.
C7_Witness ==
    /\ call.op = "rotated"
    /\ is_pair(size) /\ size[1] = size[2]
    /\ call.calls = NUM_ROTATIONS_2D /\ call.turns = NUM_ROTATIONS_2D
    /\ call.times = 1
    /\ rotated(coord, 1, size) # coord
    /\ call.ret = coord

\* ------------------------------------------------------ claims: C8 ----
\* C8 as stated: on every extent, square or not, rotated of a coordinate
\* inside the extent is inside the extent, and a RotatedGridView access
\* reads a cell of the grid.
C8_AnyExtentStaysInside ==
    /\ call.op = "rotated" => inside(call.ret, size)
    /\ call.op = "index" =>
          /\ ~halted
          /\ inside(rotated(coord, call.times, size), size)

\* C8 amended: rotated of a coordinate inside the extent is inside the
\* extent when the extent is 1D or square, or when the rotation count is
\* even; a RotatedGridView access then reads a cell of the grid.
C8_SquareStaysInside ==
    /\ (call.op = "rotated" /\ (square(size) \/ call.times % 2 = 0))
          => inside(call.ret, size)
    /\ (call.op = "index" /\ (square(size) \/ call.times % 2 = 0)) =>
          /\ ~halted
          /\ inside(rotated(coord, call.times, size), size)
          /\ call.flat \in DOMAIN cells
          /\ call.ret = cells[call.flat]

\* A half-turned access on an extent that is not square, at a coordinate
\* the half turn moves.
C8_Witness ==
    /\ call.op = "index"
    /\ is_pair(size) /\ size[1] # size[2]
    /\ call.times = 2
    /\ call.flat # to_flat(coord, size)
    /\ ~halted

\* ------------------------------------------------------ claims: C9 ----
\* The coordinates next() has returned so far.
yielded == SelectSeq(returned, LAMBDA r : r # << >>)

product(e) == IF Len(e) = 0 THEN 1
              ELSE LET p[d \in 0..Len(e)] == IF d = 0 THEN 1 ELSE p[d - 1] * e[d]
                   IN p[Len(e)]

from_zero == iter.kind = "CartesianIter" => iter.begin = coord_zero(Len(size))

\* C9 as stated: for every extent, a zero axis included, each iterator
\* from the origin never panics, yields coordinates inside the extent, no
\* coordinate twice, and has yielded product-of-axes of them when it ends.
C9_YieldsVolume ==
    from_zero =>
        /\ ~halted
        /\ \A n \in 1..Len(yielded) :
              \A d \in 1..Len(size) :
                  0 <= yielded[n][1][d] /\ yielded[n][1][d] < size[d]
        /\ \A n, m \in 1..Len(yielded) : yielded[n] = yielded[m] => n = m
        /\ nones(returned) > 0 => Len(yielded) = product(size)

\* ----------------------------------------------------- claims: C10 ----
\* The parity of a permutation of 0..D-1 by its inversions.
inversions(config) ==
    Cardinality({ab \in (1..Len(config)) \X (1..Len(config)) :
                    /\ ab[1] < ab[2]
                    /\ config[ab[1]].input_axis > config[ab[2]].input_axis})

negations(config) == Cardinality({k \in 1..Len(config) : config[k].negated})

is_axis_permutation(config, D) ==
    /\ Len(config) = D
    /\ {config[k].input_axis : k \in 1..D} = 0..(D - 1)

orientation_preserving(config) ==
    (inversions(config) % 2 = 1) = (negations(config) % 2 = 1)

\* Every signed axis permutation of dimension D that keeps the orientation.
signed_rotations(D) ==
    {config \in [1..D -> [input_axis : 0..(D - 1), negated : BOOLEAN]] :
        is_axis_permutation(config, D) /\ orientation_preserving(config)}

\* C10: what rotation_permutations(D) has collected holds only signed axis
\* permutations of 0..D-1 whose permutation parity equals their negation
\* parity, none twice; when it returns none is missing, and there are 4 of
\* them for D = 2 and 24 for D = 3.
C10_RotationPermutations ==
    rot.stage # "none" =>
        /\ \A n \in 1..Len(out) :
              /\ is_axis_permutation(out[n], rot.dimension)
              /\ orientation_preserving(out[n])
        /\ \A n, m \in 1..Len(out) : out[n] = out[m] => n = m
        /\ rot.stage = "done" =>
              /\ {out[n] : n \in 1..Len(out)} = signed_rotations(rot.dimension)
              /\ rot.dimension = 2 => Len(out) = 4
              /\ rot.dimension = 3 => Len(out) = 24

\* rotation_permutations(3) has returned its 24 configurations, one of them
\* an odd permutation with an odd number of negations.
C10_Witness ==
    /\ rot.stage = "done"
    /\ rot.dimension = 3
    /\ Len(out) = 24
    /\ \E n \in 1..Len(out) : inversions(out[n]) % 2 = 1 /\ out[n][3].negated

\* ----------------------------------------------------- claims: C11 ----
\* The number of cells of the grid a constructor has returned.
cell_count == Cardinality(DOMAIN cells)

\* C11 as stated: a constructor, of Grid or of either NGrid, returns iff the
\* number of cells supplied is the product of the axes of the size, and
\* the grid it returns holds that many cells.
C11_ConstructedHoldsProduct ==
    call.op \in {"Grid::new", "ndgrid::NGrid::new", "ngrid::NGrid::new"} =>
        /\ ~halted <=> call.len = product(call.size)
        /\ ~halted => cell_count = product(size)

\* ----------------------------------------------------- claims: C12 ----
\* Orientation a comes before b with rotation first, then the offset with
\* its first (x) axis fastest and its second (y) axis slowest.
before_x_fastest(a, b) ==
    \/ a.rotation_times < b.rotation_times
    \/ /\ a.rotation_times = b.rotation_times
       /\ \/ a.position[2] < b.position[2]
          \/ a.position[2] = b.position[2] /\ a.position[1] < b.position[1]

\* The same with the y axis fastest and the x axis slowest.
before_y_fastest(a, b) ==
    \/ a.rotation_times < b.rotation_times
    \/ /\ a.rotation_times = b.rotation_times
       /\ \/ a.position[1] < b.position[1]
          \/ a.position[1] = b.position[1] /\ a.position[2] < b.position[2]

\* The orientations that pass, as a set.
passing == {o \in Orientations : passes(grid, patch, o)}

\* C12 as stated: the list is ordered by rotation and then by offset with
\* x advancing fastest and y slowest.
C12_XFastest ==
    call.op = "get_patch_matches" =>
        \A i, j \in 1..Len(call.ret) :
            i < j => before_x_fastest(call.ret[i], call.ret[j])

\* C12 amended: the list is the passing orientations ordered by rotation,
\* then by offset x, then by offset y (y advances fastest); so the same
\* grid and patch always give the same list.
C12_YFastest ==
    call.op = "get_patch_matches" =>
        /\ {call.ret[i] : i \in 1..Len(call.ret)} = passing
        /\ \A i, j \in 1..Len(call.ret) :
              i < j => before_y_fastest(call.ret[i], call.ret[j])

\* A scan that reports, for one rotation, two matches of which the first
\* has the smaller x and the larger y.
C12_Witness ==
    /\ call.op = "get_patch_matches"
    /\ \E i, j \in 1..Len(call.ret) :
          /\ i < j
          /\ call.ret[i].rotation_times = call.ret[j].rotation_times
          /\ call.ret[i].position[1] < call.ret[j].position[1]
          /\ call.ret[i].position[2] > call.ret[j].position[2]

\* ----------------------------------------------------- claims: C13 ----
\* Where the iteration begins: ZERO for a CoordIter.
begin_of == IF iter.kind = "CartesianIter" THEN iter.begin ELSE coord_zero(Len(size))

\* The product of the axes before axis d.
stride(e, d) == product(SubSeq(e, 1, d - 1))

\* The coordinate number j (from 0) of the nested loops over
\* [begin, begin + size) with the first axis innermost.
nested_loops_at(begin, e, j) ==
    [d \in 1..Len(e) |-> begin[d] + ((j \div stride(e, d)) % e[d])]

\* C13 as stated: no call panics; call number n of next returns coordinate
\* number n - 1 of the nested loops over [begin, begin + size) with the
\* first axis innermost, and every call after the last coordinate
\* returns None.
C13_NestedLoopOrder ==
    /\ ~halted
    /\ \A n \in 1..Len(returned) :
          returned[n] = IF n <= product(size)
                        THEN Some(nested_loops_at(begin_of, size, n - 1))
                        ELSE << >>

\* ----------------------------------------------------- claims: C14 ----
\* The transform a configuration describes, about the centre of the grid:
\* output axis i takes input axis input_axis, mirrored in the extent of
\* that axis when negated.
apply_configuration(config, c, grid_size) ==
    [i \in 1..Len(config) |->
        LET a == config[i].input_axis + 1
        IN IF config[i].negated THEN grid_size[a] - 1 - c[a] ELSE c[a]]

\* C14 as stated: for a 1D or 2D coordinate, NUM_ROTATIONS is the number of
\* configurations rotation_permutations returns for that dimension, and
\* rotated(_, k, extent) is the transform of configuration number k (from
\* 0) in the order they are returned.
C14_TablesFollowEnumerator ==
    call.op = "rotated" =>
        LET configurations == rotation_permutations(Len(size))
            k == call.times % NUM_ROTATIONS(size)
        IN /\ NUM_ROTATIONS(size) = Len(configurations)
           /\ k < Len(configurations)
                 => call.ret = apply_configuration(configurations[k + 1],
                                                   call.self, size)

\* ----------------------------------------------------- claims: C15 ----
\* The number of cells of an S x S grid that hold v.
count_of(items, v) ==
    Cardinality({c \in PatchRows \X PatchRows : items[c[2]][c[1]] = v})

\* C15: the grid rotate(t) returns holds, at the coordinate
\* (x, y).rotated(t, (S, S)), the cell its receiver holds at (x, y); every
\* coordinate is the rotated of some coordinate, and every value is held
\* by as many cells as before; rotate(0) returns an equal grid; and rotate
\* after rotate is rotate by the sum of the times mod 4.
C15_RotateFollowsRotated ==
    call.op = "rotate" =>
        /\ \A x \in PatchRows, y \in PatchRows :
              LET c == rotated(<< x, y >>, call.times, << S, S >>)
              IN patch[c[2]][c[1]] = call.self[y][x]
        /\ \A nx \in PatchRows, ny \in PatchRows :
              \E x \in PatchRows, y \in PatchRows :
                  rotated(<< x, y >>, call.times, << S, S >>) = << nx, ny >>
        /\ \A v \in PatchCell : count_of(patch, v) = count_of(call.self, v)
        /\ call.times = 0 => patch = call.self
        /\ patch = rotate(call.first, call.turns % 4)

\* Two quarter turns in a row of a grid that a quarter turn and a half
\* turn both change, and that holds no default cell.
C15_Witness ==
    /\ call.op = "rotate"
    /\ call.calls = 2 /\ call.times = 1 /\ call.turns = 2
    /\ call.self # call.first /\ patch # call.self /\ patch # call.first
    /\ count_of(call.first, PatchDefault[0][0]) = 0

\* ----------------------------------------------------- claims: C16 ----
\* The replace patch is concrete only where the find patch is concrete.
covered(rule) ==
    \A py \in PatchRows, px \in PatchRows :
        rule.replace[py][px] # None => rule.find[py][px] # None

\* Every concrete cell of the replace patch, rotated and placed as the
\* orientation says, lies in the grid.
writes_inside(replacement_patch, o) ==
    \A py \in PatchRows, px \in PatchRows :
        rotate(replacement_patch, o.rotation_times)[py][px] # None =>
            in_grid(px + o.position[1], py + o.position[2])

\* The bounding box of the patch at the orientation leaves the grid.
partial_overlap(o) ==
    \/ o.position[1] < 0 \/ o.position[1] + S > W
    \/ o.position[2] < 0 \/ o.position[2] + S > H

\* C16: from any grid and after any number of steps, every match of a rule
\* whose replace patch is concrete only where its find patch is concrete
\* puts the concrete replace cells inside the grid; and with a rule list of
\* such rules only, no step panics.
C16_CoveredRulesNeverPanic ==
    /\ \A i \in 1..Len(rules) :
          covered(rules[i]) =>
              LET matches == get_patch_matches(grid, rules[i].find)
              IN \A k \in 1..Len(matches) :
                    writes_inside(rules[i].replace, matches[k])
    /\ (\A i \in 1..Len(rules) : covered(rules[i])) => ~halted

\* A step with rules of that kind only, in which the first rule fired
\* and the match it chose had its bounding box partly outside the grid: no
\* match inside the grid gives the grid the step left.
C16_Witness ==
    /\ call.op = "priority_random_repace"
    /\ ~halted
    /\ \A i \in 1..Len(rules) : covered(rules[i])
    /\ call.calls = << "true" >>
    /\ grid # call.before
    /\ LET matches == get_patch_matches(call.before, rules[1].find)
       IN \A k \in 1..Len(matches) :
             replace_at(call.before, rules[1].replace, matches[k]).items = grid
                 => partial_overlap(matches[k])

====
